---- MODULE Spec2Model ----
(***************************************************************************)
(* Model of curveball/scripts/cli.py: the `analyse` command and            *)
(* `process_file`.  File names are sequences of one-character strings so   *)
(* that os.path.splitext and str.lower are computed, not assumed.          *)
(***************************************************************************)
EXTENDS Integers, Sequences, FiniteSets, TLC

(* ---------------------------- bounds ---------------------------------- *)
NumNames == 4      \* the data directory holds at most the first NumNames of AllNames
NumWells == 2      \* wells of the plate template
PipeTimes == 1     \* time points of the readings drawn inside the pipeline
PipeMaxOD == 0     \* largest optical density drawn inside the pipeline
NumTimes == 2      \* time points of the readings of the correction spec
MaxOD == 1         \* largest optical density of the correction spec

Strains == {"0", "1", "2"}
BlankChoices == {"0"}          \* --blank_strain (default '0')
RefChoices == {"0", "1"}       \* --ref_strain (default '1'); "0" = the blank

(* ------------------------- file names --------------------------------- *)
AllNames ==
  << <<"c", ".", "t", "x", "t">>,
     <<"a", ".", "m", "a", "t">>,
     <<"b", ".", "M", "A", "T">>,
     <<"e", ".", "x", "l", "s", "x">>,
     <<".", "h", ".", "m", "a", "t">> >>

\* the contents the data directory may have: the first k names, k = 0..NumNames
EntryChoices == {{AllNames[i] : i \in 1..k} : k \in 0..NumNames}

Cwd == << <<"w">> >>                      \* current working directory /w
DataDir == << <<"w">>, <<"d">> >>         \* the data directory /w/d

\* cli.py:29-32
file_extension_handlers ==
  ( <<".", "m", "a", "t">> :> "read_tecan_mat" ) @@
  ( <<".", "x", "l", "s", "x">> :> "read_tecan_xlsx" )

\* str.lower on one character
LowerChar(c) ==
  CASE c = "M" -> "m"
    [] c = "A" -> "a"
    [] c = "T" -> "t"
    [] c = "X" -> "x"
    [] c = "L" -> "l"
    [] c = "S" -> "s"
    [] OTHER -> c

Lower(s) == [i \in 1..Len(s) |-> LowerChar(s[i])]

\* index of the last "." of a name that has a non-dot character before it,
\* 0 when there is none (os.path.splitext ignores leading dots)
ExtDot(name) ==
  LET dots == {i \in 1..Len(name) :
                 name[i] = "." /\ \E j \in 1..(i-1) : name[j] # "."}
  IN IF dots = {} THEN 0 ELSE CHOOSE i \in dots : \A j \in dots : j <= i

\* os.path.splitext on a file name: <<root, ext>>
SplitExtName(name) ==
  LET d == ExtDot(name)
  IN IF d = 0 THEN <<name, <<>>>>
     ELSE <<SubSeq(name, 1, d - 1), SubSeq(name, d, Len(name))>>

(* ---------------------------- paths ----------------------------------- *)
\* a path is [abs |-> BOOLEAN, comps |-> sequence of names]
RelPath(comps) == [abs |-> FALSE, comps |-> comps]
AbsPath(comps) == [abs |-> TRUE, comps |-> comps]

\* os.path.join(a, b): an absolute b discards a
Join(a, b) ==
  IF b.abs THEN b ELSE [abs |-> a.abs, comps |-> a.comps \o b.comps]

\* os.path.splitext(path): <<fn, ext>>, only the last component is split
SplitExt(p) ==
  LET n == Len(p.comps)
      s == SplitExtName(p.comps[n])
  IN <<[abs |-> p.abs, comps |-> SubSeq(p.comps, 1, n - 1) \o <<s[1]>>], s[2]>>

\* os.path.dirname / os.path.basename
DirName(p) == [abs |-> p.abs, comps |-> SubSeq(p.comps, 1, Len(p.comps) - 1)]
BaseName(p) == p.comps[Len(p.comps)]

\* the location a path names, as components from the root
Resolve(p) == IF p.abs THEN p.comps ELSE Cwd \o p.comps

(* ------------------------- file system -------------------------------- *)
VARIABLES
  PLOT,            \* cli.py:25, set by cli() at 96-97
  PROMPT,          \* cli.py:26, set by cli() at 98-99
  path,            \* the PATH argument of analyse
  entries,         \* names of the files inside the data directory
  plate,           \* the plate template: well -> strain
  blank_strain,    \* --blank_strain
  ref_strain       \* --ref_strain

\* os.path.exists / os.path.isdir on the modelled tree /w/d/<entries>
IsDir(p) ==
  LET r == Resolve(p)
  IN \E k \in 0..Len(DataDir) : r = SubSeq(DataDir, 1, k)

IsFile(p) ==
  LET r == Resolve(p)
  IN /\ Len(r) = Len(DataDir) + 1
     /\ SubSeq(r, 1, Len(DataDir)) = DataDir
     /\ r[Len(r)] \in entries

Exists(p) == IsDir(p) \/ IsFile(p)

\* a sequence enumerating a set of names in the order of AllNames
RECURSIVE SeqOfNames(_, _)
SeqOfNames(S, i) ==
  IF i > Len(AllNames) THEN <<>>
  ELSE (IF AllNames[i] \in S THEN <<AllNames[i]>> ELSE <<>>) \o SeqOfNames(S, i + 1)

\* glob.glob(os.path.join(path, '*')): every entry of the directory whose
\* name does not start with a dot, each prefixed with the directory path
GlobStar(dir) ==
  IF ~IsDir(dir) \/ Resolve(dir) # DataDir THEN <<>>
  ELSE LET vis == SeqOfNames({n \in entries : n[1] # "."}, 1)
       IN [i \in 1..Len(vis) |-> Join(dir, RelPath(<<vis[i]>>))]

\* glob.glob(path) for a path without pattern characters
GlobLiteral(p) == IF Exists(p) THEN <<p>> ELSE <<>>

\* cli.py:159, the predicate of the filter
Recognized(fn) == Lower(SplitExt(fn)[2]) \in DOMAIN file_extension_handlers

RECURSIVE FilterRecognized(_)
FilterRecognized(fs) ==
  IF fs = <<>> THEN <<>>
  ELSE (IF Recognized(Head(fs)) THEN <<Head(fs)>> ELSE <<>>)
         \o FilterRecognized(Tail(fs))

\* cli.py:155, the map over the glob result
JoinedWithPath(p, fs) == [i \in 1..Len(fs) |-> Join(p, fs[i])]

\* cli.py:153-159
Discover(p) ==
  LET listed == IF IsDir(p) THEN JoinedWithPath(p, GlobStar(p))
                ELSE GlobLiteral(p)
  IN FilterRecognized(listed)

\* cli.py:177, the handler lookup of process_file (ext is not lowercased)
HandlerFor(ext) ==
  IF ext \in DOMAIN file_extension_handlers
  THEN file_extension_handlers[ext] ELSE "None"

(* ---------------------- plate and readings ----------------------------- *)
Plates == [1..NumWells -> Strains]

\* plate.Strain.unique().tolist(): the strains in order of first appearance
RECURSIVE UniqueFrom(_, _, _)
UniqueFrom(pl, i, acc) ==
  IF i > NumWells THEN acc
  ELSE UniqueFrom(pl, i + 1,
         IF \E k \in 1..Len(acc) : acc[k] = pl[i] THEN acc ELSE Append(acc, pl[i]))

Unique(pl) == UniqueFrom(pl, 1, <<>>)

InList(x, l) == \E k \in 1..Len(l) : l[k] = x

\* list.remove(x): drops the first occurrence
RECURSIVE Remove(_, _)
Remove(l, x) ==
  IF l = <<>> THEN <<>>
  ELSE IF Head(l) = x THEN Tail(l) ELSE <<Head(l)>> \o Remove(Tail(l), x)

\* cli.py:214-215 with append instead of insert(0, ...) (a faulty variant)
OrderStrainsRefLast(strains0, blank, ref) ==
  LET s1 == IF InList(blank, strains0) THEN Remove(strains0, blank) ELSE strains0
  IN IF InList(ref, s1) THEN Remove(s1, ref) \o <<ref>> ELSE s1

\* cli.py:211-215 without the move to the front (used as a faulty variant)
OrderStrainsNoFront(strains0, blank, ref) ==
  IF InList(blank, strains0) THEN Remove(strains0, blank) ELSE strains0

\* cli.py:211-215: blank removed, reference moved to the front
OrderStrains(strains0, blank, ref) ==
  LET s1 == IF InList(blank, strains0) THEN Remove(strains0, blank) ELSE strains0
  IN IF InList(ref, s1) THEN <<ref>> \o Remove(s1, ref) ELSE s1

\* an optical density is a rational num/den; den = 0 stands for NaN
Rat(n, d) == [num |-> n, den |-> d]

\* the long-form table a handler returns: one row per time point and well,
\* the strain of a row taken from the plate
Readings(pl, nTimes, od) ==
  [k \in 1..(nTimes * NumWells) |->
     LET t == (k - 1) \div NumWells
         w == ((k - 1) % NumWells) + 1
     IN [Well |-> w, Strain |-> pl[w], Time |-> t, OD |-> Rat(od[<<w, t>>], 1)]]

ReadingsSet(pl, nTimes, maxOD) ==
  {Readings(pl, nTimes, od) :
     od \in [(1..NumWells) \X (0..(nTimes - 1)) -> 0..maxOD]}

RECURSIVE SumNum(_, _)
SumNum(d, I) ==
  IF I = {} THEN 0
  ELSE LET i == CHOOSE j \in I : TRUE IN d[i].OD.num + SumNum(d, I \ {i})

\* df.Time.min() / df.Time.max()
TimeMin(d) == CHOOSE t \in {d[i].Time : i \in 1..Len(d)} :
                \A i \in 1..Len(d) : t <= d[i].Time
TimeMax(d) == CHOOSE t \in {d[i].Time : i \in 1..Len(d)} :
                \A i \in 1..Len(d) : t >= d[i].Time

\* cli.py:195: the rows of the blank strain at the minimum time
BgRows(d, blank) ==
  {i \in 1..Len(d) : d[i].Strain = blank /\ d[i].Time = TimeMin(d)}

\* cli.py:196: bg.OD.mean() as sum/count; the mean of no rows is NaN
BgMean(d, blank) ==
  LET I == BgRows(d, blank) IN Rat(SumNum(d, I), Cardinality(I))

\* cli.py:197: one row of df.OD -= bg
Subtract(x, bg) ==
  IF x.den = 0 \/ bg.den = 0 THEN Rat(0, 0)
  ELSE Rat(x.num * bg.den - bg.num * x.den, x.den * bg.den)

\* cli.py:198: df.loc[df.OD < 0, 'OD'] = 0  (NaN < 0 is false)
Clamp(x) == IF x.den > 0 /\ x.num < 0 THEN Rat(0, 1) ELSE x

\* cli.py:197 without 198 (used as a faulty variant)
CorrectNoClamp(d, blank) ==
  [i \in 1..Len(d) |-> [d[i] EXCEPT !.OD = Subtract(d[i].OD, BgMean(d, blank))]]

\* cli.py:195-198
Correct(d, blank) ==
  [i \in 1..Len(d) |->
     [d[i] EXCEPT !.OD = Clamp(Subtract(d[i].OD, BgMean(d, blank)))]]

(* ------------------------- program state ------------------------------ *)
VARIABLES
  pc,              \* position in analyse
  error,           \* the exception that ended the run, "none" while running
  confirm,         \* outcome of click.confirm: "not_asked", "yes", "no"
  discovered,      \* TRUE once cli.py:153-159 has run
  files,           \* cli.py:159
  fileIdx,         \* index in files of the file being processed
  results,         \* cli.py:134, 166
  output,          \* the table written to output_file, Unopened before
  ppc,             \* position in process_file
  nCalls,          \* number of calls of process_file
  parsed,          \* indices of the files a handler was called on
  skipped,         \* indices of the files that had no handler
  raw_df,          \* what the handler returned
  df,              \* the readings table of process_file
  strains,         \* cli.py:191, reordered at 211-215
  sIdx,            \* index in strains of the loop at cli.py:220
  fit,             \* cli.py:232
  ref_fit,         \* cli.py:254, a local of process_file
  file_results,    \* cli.py:175
  fitted,          \* strains passed to fit_model for this file, in order
  competed,        \* calls of compete for this file
  log,             \* messages echoed for this file
  plots            \* plot files written

config == <<PLOT, PROMPT, path, entries, plate, blank_strain, ref_strain>>
run == <<pc, error, confirm, discovered, files, fileIdx, results, output>>
locals == <<ppc, nCalls, parsed, skipped, raw_df, df, strains, sIdx, fit,
            ref_fit, file_results, fitted, competed, log, plots>>
vars == <<config, run, locals>>

Unopened == [columns |-> {"<unopened>"}, rows |-> <<>>]
Unset == [file |-> 0, strain |-> "<unbound>"]

Columns ==
  {"folder", "filename", "strain", "model", "RSS", "bic", "aic", "benchmark",
   "y0", "K", "r", "nu", "q0", "v", "max_growth_rate", "lag", "has_lag",
   "has_nu", "w"}

filepath == files[fileIdx]
strain == strains[sIdx]

\* the exception propagates out of analyse: nothing else runs
Raise(e) ==
  /\ pc' = "aborted"
  /\ error' = e

(* ----------------------------- analyse -------------------------------- *)
\* cli.py:135-146: find_plate_file and load_plate succeed
LoadPlate ==
  /\ pc = "start"
  /\ pc' = IF PROMPT THEN "confirm" ELSE "discover"
  /\ UNCHANGED <<config, error, confirm, discovered, files, fileIdx, results,
                 output, locals>>

\* cli.py:67, 82, 84: the plate file is missing or is not a CSV file
LoadPlateFail ==
  /\ pc = "start"
  /\ Raise("FileError")
  /\ UNCHANGED <<config, confirm, discovered, files, fileIdx, results, output,
                 locals>>

\* cli.py:147-151, the user answers yes
ConfirmAccept ==
  /\ pc = "confirm"
  /\ confirm' = "yes"
  /\ pc' = "discover"
  /\ UNCHANGED <<config, error, discovered, files, fileIdx, results, output,
                 locals>>

\* cli.py:151 with abort=False (used as a faulty variant)
ConfirmDeclineNoAbort ==
  /\ pc = "confirm"
  /\ confirm' = "no"
  /\ pc' = "discover"
  /\ UNCHANGED <<config, error, discovered, files, fileIdx, results, output,
                 locals>>

\* cli.py:147-151, the user answers no: click.confirm(abort=True) raises Abort
ConfirmDecline ==
  /\ pc = "confirm"
  /\ confirm' = "no"
  /\ Raise("Abort")
  /\ UNCHANGED <<config, discovered, files, fileIdx, results, output, locals>>

\* cli.py:153-164 without the check at 160-161 (used as a faulty variant)
DiscoverFilesNoCheck ==
  /\ pc = "discover"
  /\ files' = Discover(path)
  /\ discovered' = TRUE
  /\ IF files' = <<>>
     THEN /\ pc' = "write"
          /\ UNCHANGED <<fileIdx, ppc>>
     ELSE /\ pc' = "files"
          /\ fileIdx' = 1
          /\ ppc' = "dispatch"
  /\ UNCHANGED <<config, error, confirm, results, output, nCalls, parsed,
                 skipped, raw_df, df, strains, sIdx, fit, ref_fit,
                 file_results, fitted, competed, log, plots>>

\* cli.py:153-164: discovery, the empty check, entry of the loop over files
DiscoverFiles ==
  /\ pc = "discover"
  /\ files' = Discover(path)
  /\ discovered' = TRUE
  /\ IF files' = <<>>
     THEN /\ Raise("NoDataFiles")
          /\ UNCHANGED <<fileIdx, ppc>>
     ELSE /\ pc' = "files"
          /\ fileIdx' = 1
          /\ ppc' = "dispatch"
          /\ UNCHANGED error
  /\ UNCHANGED <<config, confirm, results, output, nCalls, parsed,
                 skipped, raw_df, df, strains, sIdx, fit, ref_fit,
                 file_results, fitted, competed, log, plots>>

\* cli.py:168-169: the columns of a DataFrame built from a list of dicts
\* are the union of the dicts' keys
WriteOutput ==
  /\ pc = "write"
  /\ output' = [columns |-> UNION {DOMAIN results[i] : i \in 1..Len(results)},
                rows |-> results]
  /\ pc' = "done"
  /\ UNCHANGED <<config, error, confirm, discovered, files, fileIdx, results,
                 locals>>

(* --------------------------- process_file ----------------------------- *)
\* cli.py:175-180: entry, extension split and handler lookup
Dispatch ==
  /\ pc = "files" /\ ppc = "dispatch"
  /\ nCalls' = nCalls + 1
  /\ IF HandlerFor(SplitExt(filepath)[2]) = "None"
     THEN /\ log' = {"no_handler"}
          /\ skipped' = skipped \cup {fileIdx}
          /\ ppc' = "return"
     ELSE /\ log' = {}
          /\ ppc' = "read"
          /\ UNCHANGED skipped
  /\ UNCHANGED <<config, run, parsed, raw_df, df, strains, sIdx, fit,
                 ref_fit, file_results, fitted, competed, plots>>

\* cli.py:181-185: the handler reads the file
ReadData ==
  /\ pc = "files" /\ ppc = "read"
  /\ Exists(filepath)
  /\ \E d \in ReadingsSet(plate, PipeTimes, PipeMaxOD) :
       /\ raw_df' = d
       /\ df' = d
  /\ parsed' = parsed \cup {fileIdx}
  /\ ppc' = "correct"
  /\ UNCHANGED <<config, run, nCalls, skipped, strains, sIdx, fit, ref_fit,
                 file_results, fitted, competed, log, plots>>

\* cli.py:186-189: the handler raises IOError (always, when the file does
\* not exist) or XLRDError
ReadFail ==
  /\ pc = "files" /\ ppc = "read"
  /\ parsed' = parsed \cup {fileIdx}
  /\ Raise("FileError")
  /\ UNCHANGED <<config, confirm, discovered, files, fileIdx, results, output,
                 ppc, nCalls, skipped, raw_df, df, strains, sIdx, fit,
                 ref_fit, file_results, fitted, competed, log, plots>>

\* cli.py:191-200
BackgroundCorrect ==
  /\ pc = "files" /\ ppc = "correct"
  /\ strains' = Unique(plate)
  /\ IF InList(blank_strain, strains')
     THEN /\ df' = Correct(df, blank_strain)
          /\ UNCHANGED log
     ELSE /\ log' = log \cup {"blank_missing"}
          /\ UNCHANGED df
  /\ ppc' = IF PLOT THEN "plot_wells" ELSE "order"
  /\ UNCHANGED <<config, run, nCalls, parsed, skipped, raw_df, sIdx, fit,
                 ref_fit, file_results, fitted, competed, plots>>

\* cli.py:203-205
PlotWells ==
  /\ pc = "files" /\ ppc = "plot_wells"
  /\ plots' = plots \cup {<<fileIdx, "wells", "">>}
  /\ ppc' = "plot_strains"
  /\ UNCHANGED <<config, run, nCalls, parsed, skipped, raw_df, df, strains,
                 sIdx, fit, ref_fit, file_results, fitted, competed, log>>

\* cli.py:207-209
PlotStrains ==
  /\ pc = "files" /\ ppc = "plot_strains"
  /\ plots' = plots \cup {<<fileIdx, "strains", "">>}
  /\ ppc' = "order"
  /\ UNCHANGED <<config, run, nCalls, parsed, skipped, raw_df, df, strains,
                 sIdx, fit, ref_fit, file_results, fitted, competed, log>>

\* cli.py:204, 208: plot_wells or plot_strains raises; nothing catches it
PlotFail ==
  /\ pc = "files" /\ ppc \in {"plot_wells", "plot_strains"}
  /\ Raise("PlotError")
  /\ UNCHANGED <<config, confirm, discovered, files, fileIdx, results, output,
                 locals>>

\* cli.py:211-220: the strain list is put in order, the loop is entered
ReorderStrains ==
  /\ pc = "files" /\ ppc = "order"
  /\ strains' = OrderStrains(strains, blank_strain, ref_strain)
  /\ log' = IF InList(ref_strain, strains') THEN log
            ELSE log \cup {"ref_missing"}
  /\ sIdx' = 1
  /\ ppc' = IF strains' = <<>> THEN "return" ELSE "fit"
  /\ UNCHANGED <<config, run, nCalls, parsed, skipped, raw_df, df, fit,
                 ref_fit, file_results, fitted, competed, plots>>

\* cli.py:221-229: fit_model, and the strain plot when PLOT
FitStrain ==
  /\ pc = "files" /\ ppc = "fit"
  /\ fit' = [file |-> fileIdx, strain |-> strain]
  /\ fitted' = Append(fitted, strain)
  /\ plots' = IF PLOT THEN plots \cup {<<fileIdx, "strain", strain>>} ELSE plots
  /\ ppc' = "record"
  /\ UNCHANGED <<config, run, nCalls, parsed, skipped, raw_df, df, strains,
                 sIdx, ref_fit, file_results, competed, log>>

\* cli.py:222-226: fit_model has run, fig.savefig raises
FitPlotFail ==
  /\ pc = "files" /\ ppc = "fit" /\ PLOT
  /\ fitted' = Append(fitted, strain)
  /\ Raise("PlotError")
  /\ UNCHANGED <<config, confirm, discovered, files, fileIdx, results, output,
                 ppc, nCalls, parsed, skipped, raw_df, df, strains, sIdx, fit,
                 ref_fit, file_results, competed, log, plots>>

\* cli.py:253, 256 with a plain else (used as a faulty variant)
FitnessCaseNoGuard(s, ref, strs) ==
  IF s = ref THEN "reference" ELSE "compete"

\* cli.py:253, 256: which branch sets res['w']
FitnessCase(s, ref, strs) ==
  IF s = ref THEN "reference"
  ELSE IF InList(ref, strs) THEN "compete"
  ELSE "none"

\* cli.py:231-251: the record without 'w'; values computed by the fitting
\* library are symbolic
BaseRecord(fp, s) ==
  [c \in Columns \ {"w"} |->
     CASE c = "folder" -> DirName(fp)
       [] c = "filename" -> SplitExtName(BaseName(SplitExt(fp)[1]))[1]
       [] c = "strain" -> s
       [] OTHER -> "fit"]

\* cli.py:255, 266: the value of res['w']
WithW(res, w) == [c \in DOMAIN res \cup {"w"} |-> IF c = "w" THEN w ELSE res[c]]

\* cli.py:220, 268: the record is appended, the loop moves on
AppendRecord(res) ==
  /\ file_results' = Append(file_results, res)
  /\ IF sIdx < Len(strains)
     THEN /\ sIdx' = sIdx + 1
          /\ ppc' = "fit"
     ELSE /\ ppc' = "return"
          /\ UNCHANGED sIdx

\* cli.py:231-268: the record of the strain, its fitness, the append
RecordStrain ==
  /\ pc = "files" /\ ppc = "record"
  /\ LET branch == FitnessCase(strain, ref_strain, strains)
         res == BaseRecord(filepath, strain)
     IN CASE branch = "reference" ->
               /\ ref_fit' = fit
               /\ AppendRecord(WithW(res, "1"))
               /\ UNCHANGED <<pc, error, competed, plots>>
          [] branch = "compete" /\ ref_fit = Unset ->
               \* cli.py:258 reads a local that was never assigned
               /\ Raise("UnboundLocalError")
               /\ UNCHANGED <<ref_fit, file_results, sIdx, ppc, competed, plots>>
          [] branch = "compete" /\ ref_fit # Unset ->
               /\ competed' = Append(competed,
                     [strain |-> strain, ref_fit |-> ref_fit, hours |-> TimeMax(df)])
               /\ plots' = IF PLOT
                           THEN plots \cup {<<fileIdx, "competition", strain>>}
                           ELSE plots
               /\ AppendRecord(WithW(res, "fitness_LTEE"))
               /\ UNCHANGED <<pc, error, ref_fit>>
          [] OTHER ->
               /\ AppendRecord(res)
               /\ UNCHANGED <<pc, error, ref_fit, competed, plots>>
  /\ UNCHANGED <<config, confirm, discovered, files, fileIdx, results, output,
                 nCalls, parsed, skipped, raw_df, df, strains, fit, fitted, log>>

\* cli.py:258-262: compete has run, fig.savefig raises
CompetePlotFail ==
  /\ pc = "files" /\ ppc = "record" /\ PLOT
  /\ FitnessCase(strain, ref_strain, strains) = "compete"
  /\ ref_fit # Unset
  /\ competed' = Append(competed,
        [strain |-> strain, ref_fit |-> ref_fit, hours |-> TimeMax(df)])
  /\ Raise("PlotError")
  /\ UNCHANGED <<config, confirm, discovered, files, fileIdx, results, output,
                 ppc, nCalls, parsed, skipped, raw_df, df, strains, sIdx, fit,
                 ref_fit, file_results, fitted, log, plots>>

\* cli.py:269 and 164-166: process_file returns, its locals are gone,
\* analyse extends results and takes the next file
ReturnResults ==
  /\ pc = "files" /\ ppc = "return"
  /\ results' = results \o file_results
  /\ IF fileIdx < Len(files)
     THEN /\ fileIdx' = fileIdx + 1
          /\ ppc' = "dispatch"
          /\ UNCHANGED pc
     ELSE /\ pc' = "write"
          /\ ppc' = "idle"
          /\ UNCHANGED fileIdx
  /\ raw_df' = <<>> /\ df' = <<>> /\ strains' = <<>> /\ sIdx' = 0
  /\ fit' = Unset /\ ref_fit' = Unset /\ file_results' = <<>>
  /\ fitted' = <<>> /\ competed' = <<>> /\ log' = {}
  /\ UNCHANGED <<config, error, confirm, discovered, files, output, nCalls,
                 parsed, skipped, plots>>

(* -------------------------- specifications ---------------------------- *)
\* the directory as a relative or an absolute path, or one file inside it
PathChoices(es) ==
  {RelPath(<< <<"d">> >>), AbsPath(DataDir)}
    \cup {RelPath(<< <<"d">>, n >>) : n \in es}

InitLocals ==
  /\ ppc = "idle" /\ nCalls = 0 /\ parsed = {} /\ skipped = {}
  /\ raw_df = <<>> /\ df = <<>> /\ strains = <<>> /\ sIdx = 0
  /\ fit = Unset /\ ref_fit = Unset /\ file_results = <<>>
  /\ fitted = <<>> /\ competed = <<>> /\ log = {} /\ plots = {}

Init ==
  /\ PLOT \in BOOLEAN /\ PROMPT \in BOOLEAN
  /\ entries \in EntryChoices
  /\ path \in PathChoices(entries)
  /\ plate \in Plates
  /\ blank_strain \in BlankChoices
  /\ ref_strain \in RefChoices
  /\ pc = "start" /\ error = "none" /\ confirm = "not_asked"
  /\ discovered = FALSE /\ files = <<>> /\ fileIdx = 0
  /\ results = <<>> /\ output = Unopened
  /\ InitLocals

Next ==
  \/ LoadPlate
  \/ LoadPlateFail
  \/ ConfirmAccept
  \/ ConfirmDecline
  \/ DiscoverFiles
  \/ Dispatch
  \/ ReadData
  \/ ReadFail
  \/ BackgroundCorrect
  \/ PlotWells
  \/ PlotStrains
  \/ PlotFail
  \/ ReorderStrains
  \/ FitStrain
  \/ FitPlotFail
  \/ RecordStrain
  \/ CompetePlotFail
  \/ ReturnResults
  \/ WriteOutput

Spec == Init /\ [][Next]_vars

\* process_file at cli.py:191 with the readings of one file just read:
\* the inputs of the background correction drawn from bounded sets
InitBG ==
  /\ PLOT = FALSE /\ PROMPT = FALSE
  /\ entries = {AllNames[1], AllNames[2]}
  /\ path = AbsPath(DataDir)
  /\ plate \in [1..NumWells -> {"0", "1"}]
  /\ blank_strain \in BlankChoices
  /\ ref_strain = "1"
  /\ pc = "files" /\ error = "none" /\ confirm = "not_asked"
  /\ discovered = TRUE /\ files = Discover(path) /\ fileIdx = 1
  /\ results = <<>> /\ output = Unopened
  /\ ppc = "correct" /\ nCalls = 1 /\ parsed = {1} /\ skipped = {}
  /\ raw_df \in ReadingsSet(plate, NumTimes, MaxOD) /\ df = raw_df
  /\ strains = <<>> /\ sIdx = 0
  /\ fit = Unset /\ ref_fit = Unset /\ file_results = <<>>
  /\ fitted = <<>> /\ competed = <<>> /\ log = {} /\ plots = {}

NextBG == BackgroundCorrect

SpecBG == InitBG /\ [][NextBG]_vars

(* ------------------------------ claims -------------------------------- *)
RefOnPlate ==
  /\ \E w \in 1..NumWells : plate[w] = ref_strain
  /\ ref_strain # blank_strain

AllRecords ==
  {results[i] : i \in 1..Len(results)}
    \cup {file_results[i] : i \in 1..Len(file_results)}
    \cup {output.rows[i] : i \in 1..Len(output.rows)}

\* C1: when the reference strain is on the plate and is not the blank, it
\* is the first strain fitted for the file, its record is the first record
\* of the file, and every record of the reference strain has w = 1.
ReferenceFirst ==
  RefOnPlate =>
    /\ fitted # <<>> => fitted[1] = ref_strain
    /\ file_results # <<>> => file_results[1]["strain"] = ref_strain
    /\ \A r \in AllRecords :
         r["strain"] = ref_strain => "w" \in DOMAIN r /\ r["w"] = "1"

\* the plate lists another strain before the reference, and the file has
\* produced the reference record followed by another one
ReferenceFirstWitness ==
  /\ RefOnPlate
  /\ plate[1] \notin {ref_strain, blank_strain}
  /\ ppc = "return"
  /\ Len(file_results) >= 2
  /\ file_results[1]["strain"] = ref_strain
  /\ file_results[1]["w"] = "1"

\* C2: an existing data file that discovery accepts (lowercased extension
\* is a key of the handler mapping) is never skipped by process_file as
\* "no handler found".
AcceptedIsDispatched ==
  \A i \in 1..Len(files) :
    (IsFile(files[i]) /\ Recognized(files[i])) => i \notin skipped

\* C3: for a directory PATH, discovery returns exactly the entries of the
\* directory with a recognized extension, each as a path naming that
\* existing entry inside the directory.
DirectoryDiscoveryExact ==
  (discovered /\ IsDir(path)) =>
    /\ \A i \in 1..Len(files) :
         /\ IsFile(files[i])
         /\ SubSeq(Resolve(files[i]), 1, Len(Resolve(files[i])) - 1) = Resolve(path)
    /\ {Resolve(files[i]) : i \in 1..Len(files)}
         = {Resolve(path) \o <<n>> :
              n \in {m \in entries :
                       Lower(SplitExtName(m)[2]) \in DOMAIN file_extension_handlers}}

\* C4: a failing plotting step does not abort the run.
PlottingBestEffort ==
  PLOT => ~(pc = "aborted" /\ error = "PlotError")

\* C5: every record of the written table has the full column set, w
\* included, whether or not the reference strain is on the plate.
FullColumnSet ==
  pc = "done" =>
    \A i \in 1..Len(output.rows) :
      /\ DOMAIN output.rows[i] = Columns
      /\ "w" \in output.columns

\* C6: when the reference strain is not among the iterated strains (absent
\* from the plate or equal to the blank), the warning is echoed for every
\* file whose strains are iterated, the missing reference raises nothing,
\* no record has a w value, and compete is never called.
NoReferenceNoFitness ==
  ~RefOnPlate =>
    /\ \A r \in AllRecords : "w" \notin DOMAIN r
    /\ competed = <<>>
    /\ error # "UnboundLocalError"
    /\ (ppc \in {"fit", "record"} \/ (ppc = "return" /\ fileIdx \notin skipped))
         => "ref_missing" \in log

\* the reference equals the blank, which is on the plate, and a file has
\* produced records after the warning
NoReferenceWitness ==
  /\ ref_strain = blank_strain
  /\ \E w \in 1..NumWells : plate[w] = blank_strain
  /\ ppc = "return"
  /\ file_results # <<>>
  /\ "ref_missing" \in log
  /\ error = "none"

\* the blank rows at the minimum time of the readings the handler returned
RawBlankRows ==
  {i \in 1..Len(raw_df) :
     /\ raw_df[i].Strain = blank_strain
     /\ \A j \in 1..Len(raw_df) : raw_df[i].Time <= raw_df[j].Time}

RawBlankSum == SumNum(raw_df, RawBlankRows)

Corrected == ppc \in {"plot_wells", "plot_strains", "order", "fit", "record", "return"}

\* C7: when the blank strain is among the strains of the readings, after
\* the correction every optical density is a number >= 0, every row whose
\* reading was at or below the blank mean is 0, and every other row is its
\* reading minus the blank mean.
CorrectionClamps ==
  (Corrected /\ \E i \in 1..Len(raw_df) : raw_df[i].Strain = blank_strain) =>
    LET n == Cardinality(RawBlankRows)
        s == RawBlankSum
    IN \A i \in 1..Len(df) :
         /\ df[i].OD.den > 0
         /\ df[i].OD.num >= 0
         /\ raw_df[i].OD.num * n <= s => df[i].OD.num = 0
         /\ raw_df[i].OD.num * n > s =>
              df[i].OD.num * n = (raw_df[i].OD.num * n - s) * df[i].OD.den

\* two blank wells with a fractional mean; a reading below the mean, taken
\* after the minimum time, is clamped to 0 and one above it stays positive
CorrectionWitness ==
  /\ Corrected
  /\ Cardinality(RawBlankRows) = 2
  /\ RawBlankSum % 2 = 1
  /\ \E i \in 1..Len(df) :
       /\ i \notin RawBlankRows
       /\ raw_df[i].OD.num * 2 < RawBlankSum
       /\ df[i].OD.num = 0
  /\ \E i \in 1..Len(df) : df[i].OD.num > 0

\* C8: when discovery yields no file, analyse ends with the "no data files
\* found" error, process_file and the handlers are never called, and the
\* output is never opened.
EmptyMatchFails ==
  (discovered /\ files = <<>>) =>
    /\ pc = "aborted" /\ error = "NoDataFiles"
    /\ nCalls = 0 /\ parsed = {}
    /\ output = Unopened

\* a directory whose only entries have unrecognized extensions
EmptyMatchWitness ==
  /\ discovered /\ files = <<>>
  /\ IsDir(path) /\ entries # {}
  /\ error = "NoDataFiles"

\* C9: after the user declines, the run is aborted and nothing has been
\* discovered, parsed, fitted, plotted or written; without prompting the
\* confirmation is never asked.
DeclineAborts ==
  /\ confirm = "no" =>
       /\ pc = "aborted" /\ error = "Abort"
       /\ ~discovered /\ files = <<>>
       /\ nCalls = 0 /\ parsed = {}
       /\ fitted = <<>> /\ results = <<>>
       /\ plots = {}
       /\ output = Unopened
  /\ ~PROMPT => confirm = "not_asked"

\* the user declined the plate of a run that had data files to process
DeclineWitness ==
  /\ PROMPT /\ confirm = "no"
  /\ Discover(path) # <<>>

\* C10: every call of compete got a reference fit that was produced for
\* the reference strain of the same file, as the first fit of that file;
\* the reference fit is never read while unassigned.
CompeteAfterReference ==
  /\ error # "UnboundLocalError"
  /\ \A k \in 1..Len(competed) :
       /\ competed[k].ref_fit = [file |-> fileIdx, strain |-> ref_strain]
       /\ fitted[1] = ref_strain
       /\ competed[k].strain # ref_strain

\* compete is called in a file that is not the first one processed
CompeteWitness ==
  /\ competed # <<>>
  /\ \E i \in parsed : i < fileIdx
  /\ results # <<>>

====
